---- MODULE Spec2Model ----
(***************************************************************************)
(* A model of the waveform Renderer of wavesurfer.js (src/src/renderer.ts): *)
(* the tile manager (renderMultiCanvas), the render / reRender / zoom /     *)
(* setOptions entry points, the resize debounce (createDelay, initEvents)   *)
(* and the host event loop they run on (timers, microtasks, scroll events). *)
(*                                                                         *)
(* Units.  clientWidth, scrollLeft, totalWidth are CSS pixels, as in the    *)
(* DOM.  singleCanvasWidth, tile offsets and tile widths are counted in     *)
(* half pixels (H per pixel): the tile manager defaults barWidth to 0.5 and *)
(* barGap to barWidth / 2, so with whole-pixel options every such quantity  *)
(* is a whole number of half pixels.  JavaScript's double arithmetic is     *)
(* modelled exactly (no rounding error); the two non-finite values the tile *)
(* manager can compute, Infinity and NaN, are modelled by two reserved      *)
(* integers and every operation on them follows IEEE-754 / ECMAScript.      *)
(***************************************************************************)
EXTENDS Integers, Sequences, FiniteSets, TLC

VARIABLES
    options,              \* this.options (the fields the renderer core reads)
    audioData,            \* this.audioData: 0 is null, else AudioBuffer.duration
    clientWidth,          \* parent.clientWidth; scrollContainer's while mounted
    scrollLeft,           \* scrollContainer.scrollLeft
    wrapperWidth,         \* wrapper.style.width in px; Auto for '100%' / unset
    isScrollable,         \* this.isScrollable
    lastContainerWidth,   \* this.lastContainerWidth
    timeouts,             \* this.timeouts: the registered onClear callbacks
    timeout,              \* createDelay's `timeout`: a timer id, 0 is undefined
    reject,               \* createDelay's `reject`: a request id, 0 is undefined
    armed,                \* the host's scheduled timers (ids)
    requests,             \* the promises delay() returned: their settlement
    handlerRuns,          \* per request: how often its .then ran onContainerResize
    closures,             \* one per renderMultiCanvas call: its captured state
    listeners,            \* the emitter's 'scroll' listeners (closure ids)
    unsubscribeOnScroll,  \* this.unsubscribeOnScroll (closure ids)
    microtasks,           \* the host's microtask queue
    log,                  \* the events emitted and the paints done, in order
    exported,             \* the outcome of the last exportImage call
    dom,                  \* the construction: its outcome and what it registered
    probe,                \* a call of a pure method: its arguments and its result
    samples,              \* the AudioBuffer: its length and what its windows hold
    brightnessData,       \* this.brightnessData
    prominentFrequencyData, \* this.prominentFrequencyData
    plugin,               \* the Segments plugin: its options, elements, listeners
    hung                  \* the thread is stuck in a loop that never ends

vars ==
    << options, audioData, clientWidth, scrollLeft, wrapperWidth, isScrollable,
       lastContainerWidth, timeouts, timeout, reject, armed, requests,
       handlerRuns, closures, listeners, unsubscribeOnScroll, microtasks, log,
       exported, dom, probe, samples, brightnessData, prominentFrequencyData,
       plugin, hung >>

-----------------------------------------------------------------------------
(* Program constants *)

MAX_CANVAS_WIDTH == 8000

MAX_NODES == 10

\* half pixels per pixel: barWidth || 0.5, barGap || barWidth / 2
H == 2

\* getPixelRatio() = max(1, devicePixelRatio): a standard-density display
PixelRatio == 1

\* getHeight(): defaultHeight
Height == 128

\* Math.ceil(totalWidth / 0) for totalWidth > 0
Infinity == 1000000000

\* 0 * Infinity, NaN - 1, NaN * 0 ...
NaN == -1000000000

\* wrapper.style.width = '100%' (or never set)
Auto == -1

\* the value 1.0 of a stop position, of a normalized value and of a sample
Unit == 4

-----------------------------------------------------------------------------
(* Arithmetic of the tile manager *)

Min2(a, b) == IF a <= b THEN a ELSE b

Max2(a, b) == IF a >= b THEN a ELSE b

IsFinite(x) == x # NaN /\ x # Infinity

\* Math.ceil(a / b) for a >= 0, b >= 0 (not both 0)
CeilDiv(a, b) ==
    IF b = 0 THEN Infinity
    ELSE (a + b - 1) \div b

\* index - 1 and index + 1
Minus1(x) == IF IsFinite(x) THEN x - 1 ELSE x

Plus1(x) == IF IsFinite(x) THEN x + 1 ELSE x

\* the bar-plus-gap unit of renderMultiCanvas, in half pixels (0: no bars)
TotalBarWidthMC(o) ==
    IF o.barWidth # 0 \/ o.barGap # 0
    THEN LET barWidth == IF o.barWidth # 0 THEN o.barWidth * H ELSE 1
             barGap   == IF o.barGap # 0 THEN o.barGap * H ELSE barWidth \div 2
         IN  barWidth + barGap
    ELSE 0

\* barWidth + barGap of renderBarWaveform, in half pixels: the slot of one bar
BarSlot(o) ==
    LET barWidth == IF o.barWidth # 0 THEN o.barWidth * PixelRatio * H ELSE H
        barGap   == IF o.barGap # 0 THEN o.barGap * PixelRatio * H
                    ELSE IF o.barWidth # 0 THEN barWidth \div 2 ELSE 0
    IN  barWidth + barGap

\* Math.min(clientWidth, totalWidth): the MAX_CANVAS_WIDTH cap forgotten
UncappedCanvasWidth(cw, totalWidth) ==
    Min2(cw, totalWidth) * H

\* Math.min(MAX_CANVAS_WIDTH, clientWidth, totalWidth), in half pixels
UnadjustedCanvasWidth(cw, totalWidth) ==
    Min2(MAX_CANVAS_WIDTH, Min2(cw, totalWidth)) * H

\* singleCanvasWidth after the bar adjustment, in half pixels
SingleCanvasWidth(o, cw, totalWidth) ==
    LET w0  == UnadjustedCanvasWidth(cw, totalWidth)
        tbw == TotalBarWidthMC(o)
    IN  IF tbw # 0 /\ w0 % tbw # 0
        THEN (w0 \div tbw) * tbw
        ELSE w0

\* numCanvases = Math.ceil(totalWidth / singleCanvasWidth), totalWidth > 0
NumCanvases(totalWidth, w) == CeilDiv(totalWidth * H, w)

\* Math.floor((scrollLeft / totalWidth) * numCanvases), totalWidth > 0
CanvasIndex(s, totalWidth, n) ==
    IF n = Infinity
    THEN IF s = 0 THEN NaN ELSE Infinity
    ELSE (s * n) \div totalWidth

\* offset = index * singleCanvasWidth (half pixels)
TileOffset(index, w) ==
    IF index = NaN THEN NaN
    ELSE IF index = Infinity THEN (IF w = 0 THEN NaN ELSE Infinity)
    ELSE index * w

\* clampedWidth = Math.min(totalWidth - offset, singleCanvasWidth)
TileWidth(index, totalWidth, w) ==
    LET offset == TileOffset(index, w)
    IN  IF offset = NaN THEN NaN
        ELSE IF offset = Infinity THEN -Infinity
        ELSE Min2(totalWidth * H - offset, w)

-----------------------------------------------------------------------------
(* renderMultiCanvas: the state one call captures (a "closure"), draw,        *)
(* clearCanvases and the scroll listener                                      *)

\* index < 0
Negative(index) == IsFinite(index) /\ index < 0

\* index >= numCanvases
AtLeast(index, n) == index # NaN /\ index >= n

\* canvas.width = Math.round(width * pixelRatio); a NaN width sets 0
CanvasPixelWidth(width) ==
    IF width = NaN THEN 0
    ELSE (width * PixelRatio + 1) \div H

\* renderSingleCanvas: append the canvas, and its progress canvas when the
\* canvas has a positive pixel size
RenderSingleCanvas(c, index, width) ==
    [c EXCEPT !.canvases = Append(@, index),
              !.progress = IF CanvasPixelWidth(width) > 0 /\ Height * PixelRatio > 0
                           THEN Append(@, index)
                           ELSE @]

\* draw(index)
Draw(c, index) ==
    IF Negative(index) \/ AtLeast(index, c.numCanvases) THEN c
    ELSE IF index \in c.drawnIndexes THEN c
    ELSE LET marked       == [c EXCEPT !.drawnIndexes = @ \cup {index}]
             clampedWidth == TileWidth(index, c.totalWidth, c.singleCanvasWidth)
         IN  IF clampedWidth # NaN /\ clampedWidth <= 0 THEN marked
             ELSE RenderSingleCanvas(marked, index, clampedWidth)

\* clearCanvases() as an eviction on every scroll notification
ClearCanvasesAlways(c) ==
    [c EXCEPT !.drawnIndexes = {}, !.canvases = << >>, !.progress = << >>]

\* clearCanvases() that resets drawnIndexes and leaves the containers alone
ClearCanvasesTrackingOnly(c) ==
    IF Cardinality(c.drawnIndexes) > MAX_NODES
    THEN [c EXCEPT !.drawnIndexes = {}]
    ELSE c

\* clearCanvases()
ClearCanvases(c) ==
    IF Cardinality(c.drawnIndexes) > MAX_NODES
    THEN [c EXCEPT !.drawnIndexes = {}, !.canvases = << >>, !.progress = << >>]
    ELSE c

\* draw(i); draw(i + 1), the left neighbour forgotten
DrawAroundRightOnly(c, index) ==
    Draw(Draw(c, index), Plus1(index))

\* draw(i - 1); draw(i); draw(i + 1)
DrawAround(c, index) ==
    Draw(Draw(Draw(c, Minus1(index)), index), Plus1(index))

\* the 'scroll' listener of one renderMultiCanvas call
ScrollListener(c, s) ==
    DrawAround(ClearCanvases(c), CanvasIndex(s, c.totalWidth, c.numCanvases))

\* for (let i = 0; i < numCanvases; i++) draw(i), numCanvases finite
RECURSIVE DrawAll(_, _)
DrawAll(c, i) ==
    IF i >= c.numCanvases THEN c
    ELSE DrawAll(Draw(c, i), i + 1)

\* the closure a renderMultiCanvas call starts from; w = 0 and n = 0 stand for
\* the early return before numCanvases is computed
NewClosure(pass, totalWidth, w, n) ==
    [pass |-> pass, totalWidth |-> totalWidth, singleCanvasWidth |-> w,
     numCanvases |-> n, drawnIndexes |-> {}, canvases |-> << >>,
     progress |-> << >>, attached |-> TRUE]

\* renderMultiCanvas(channelData, options, width, ...): the closure it leaves,
\* whether it subscribed to 'scroll', and whether its eager loop never ends
RenderMultiCanvas(o, cw, totalWidth, s, scrollable, pass) ==
    IF UnadjustedCanvasWidth(cw, totalWidth) = 0
    THEN [closure |-> NewClosure(pass, totalWidth, 0, 0),
          subscribed |-> FALSE, hung |-> FALSE]
    ELSE LET w  == SingleCanvasWidth(o, cw, totalWidth)
             n  == NumCanvases(totalWidth, w)
             c0 == NewClosure(pass, totalWidth, w, n)
         IN  IF ~scrollable
             THEN IF n = Infinity
                  THEN [closure |-> c0, subscribed |-> FALSE, hung |-> TRUE]
                  ELSE [closure |-> DrawAll(c0, 0),
                        subscribed |-> FALSE, hung |-> FALSE]
             ELSE [closure |-> DrawAround(c0, CanvasIndex(s, totalWidth, n)),
                   subscribed |-> n > 1, hung |-> FALSE]

-----------------------------------------------------------------------------
(* The renderer and its host as one record, so that the methods compose as   *)
(* they call each other (setOptions -> reRender -> render -> ...)            *)

Cur ==
    [options |-> options, audioData |-> audioData, clientWidth |-> clientWidth,
     scrollLeft |-> scrollLeft, wrapperWidth |-> wrapperWidth,
     isScrollable |-> isScrollable, lastContainerWidth |-> lastContainerWidth,
     timeouts |-> timeouts, timeout |-> timeout, reject |-> reject,
     armed |-> armed, requests |-> requests, handlerRuns |-> handlerRuns,
     closures |-> closures, listeners |-> listeners,
     unsubscribeOnScroll |-> unsubscribeOnScroll, microtasks |-> microtasks,
     log |-> log, exported |-> exported, dom |-> dom,
     probe |-> probe, samples |-> samples, brightnessData |-> brightnessData,
     prominentFrequencyData |-> prominentFrequencyData, plugin |-> plugin,
     hung |-> hung]

Becomes(st) ==
    /\ options' = st.options
    /\ audioData' = st.audioData
    /\ clientWidth' = st.clientWidth
    /\ scrollLeft' = st.scrollLeft
    /\ wrapperWidth' = st.wrapperWidth
    /\ isScrollable' = st.isScrollable
    /\ lastContainerWidth' = st.lastContainerWidth
    /\ timeouts' = st.timeouts
    /\ timeout' = st.timeout
    /\ reject' = st.reject
    /\ armed' = st.armed
    /\ requests' = st.requests
    /\ handlerRuns' = st.handlerRuns
    /\ closures' = st.closures
    /\ listeners' = st.listeners
    /\ unsubscribeOnScroll' = st.unsubscribeOnScroll
    /\ microtasks' = st.microtasks
    /\ log' = st.log
    /\ exported' = st.exported
    /\ dom' = st.dom
    /\ probe' = st.probe
    /\ samples' = st.samples
    /\ brightnessData' = st.brightnessData
    /\ prominentFrequencyData' = st.prominentFrequencyData
    /\ plugin' = st.plugin
    /\ hung' = st.hung

\* the largest scrollLeft the scroll container admits
MaxScroll(ww, cw) == IF ww = Auto THEN 0 ELSE Max2(0, ww - cw)

\* the number of render() calls so far: each emits 'render' first
Passes(l) == Cardinality({i \in 1..Len(l) : l[i][1] = "render"})

-----------------------------------------------------------------------------
(* createDelay(100) of initEvents: onClear, the function it returns, and the  *)
(* timer it sets                                                              *)

\* onClear() without its clearTimeout
OnClearKeepsTimer(st) ==
    [st EXCEPT !.requests = IF st.reject # 0 /\ @[st.reject] = "pending"
                            THEN [@ EXCEPT ![st.reject] = "rejected"]
                            ELSE @]

\* onClear(): if (timeout) clearTimeout(timeout); if (reject) reject()
OnClear(st) ==
    [st EXCEPT !.armed = IF st.timeout # 0 THEN @ \ {st.timeout} ELSE @,
               !.requests = IF st.reject # 0 /\ @[st.reject] = "pending"
                            THEN [@ EXCEPT ![st.reject] = "rejected"]
                            ELSE @]

\* delay(): a new promise; onClear(); reject = rejectFn; timeout = setTimeout(..)
Delay(st) ==
    LET c  == OnClear(st)
        id == Len(st.requests) + 1
    IN  [c EXCEPT !.requests = Append(@, "pending"),
                  !.handlerRuns = Append(@, 0),
                  !.reject = id,
                  !.timeout = id,
                  !.armed = @ \cup {id}]

\* the timer callback of request id: timeout = undefined; reject = undefined;
\* resolveFn(), whose reaction (.then) is queued as a microtask
TimerCallback(st, id) ==
    [st EXCEPT !.armed = @ \ {id},
               !.timeout = 0,
               !.reject = 0,
               !.requests = IF @[id] = "pending"
                            THEN [@ EXCEPT ![id] = "resolved"] ELSE @,
               !.microtasks = IF st.requests[id] = "pending"
                              THEN Append(@, <<"resize", id>>) ELSE @]

-----------------------------------------------------------------------------
(* analyzeBrightness and analyzeProminentFrequency.  A number is a fraction   *)
(* <<numerator, denominator>> with a positive denominator, computed exactly;  *)
(* <<1, 0>> is Infinity.  The transform of one window of the buffer is not     *)
(* computed: the buffer carries, for each hop of hopSize samples, the         *)
(* normalized centroid (in thousandths) and the prominent bin of the window   *)
(* that starts in that hop.                                                   *)

\* fftSize
FFT_SIZE == 128

\* hopSize = Math.floor(fftSize / 4)
HopSize == FFT_SIZE \div 4

RECURSIVE Gcd(_, _)
Gcd(a, b) == IF b = 0 THEN a ELSE Gcd(b, a % b)

\* the fraction n / d in lowest terms, d > 0
Frac(n, d) ==
    LET g == Gcd(IF n < 0 THEN 0 - n ELSE n, d)
    IN  IF g = 0 THEN <<n, d>> ELSE <<n \div g, d \div g>>

FracInfinity == <<1, 0>>

FracLess(a, b) == a[1] * b[2] < b[1] * a[2]

FracSub(a, b) == Frac(a[1] * b[2] - b[1] * a[2], a[2] * b[2])

\* a / b for b > 0
FracDiv(a, b) == Frac(a[1] * b[2], a[2] * b[1])

\* Math.min(...values) and Math.max(...values) of a non-empty list
MinOf(values) ==
    values[CHOOSE i \in DOMAIN values :
                \A j \in DOMAIN values : ~FracLess(values[j], values[i])]

MaxOf(values) ==
    values[CHOOSE i \in DOMAIN values :
                \A j \in DOMAIN values : ~FracLess(values[i], values[j])]

\* Math.pow(x, p) for x >= 0 and the exponents -1, 0, 1, 2
Pow(x, p) ==
    IF p = 0 THEN <<1, 1>>
    ELSE IF p = 1 THEN x
    ELSE IF p = 2 THEN Frac(x[1] * x[1], x[2] * x[2])
    ELSE IF x[1] = 0 THEN FracInfinity
    ELSE Frac(x[2], x[1])

\* the window that starts at sample frameStart
WindowAt(audioBuffer, frameStart) ==
    audioBuffer.windows[(frameStart \div HopSize) + 1]

\* the frames of a segment: the sum of what they contribute, and framesCount
RECURSIVE SumFrames(_, _, _, _)
SumFrames(audioBuffer, frameStart, segmentEnd, feature) ==
    IF frameStart + FFT_SIZE > segmentEnd THEN <<0, 0>>
    ELSE LET rest == SumFrames(audioBuffer, frameStart + HopSize, segmentEnd,
                               feature)
         IN  <<WindowAt(audioBuffer, frameStart)[feature] + rest[1], rest[2] + 1>>

\* segmentStart and segmentEnd of segment segmentIndex (from 0)
SegmentStart(audioBuffer, numberOfSegments, segmentIndex) ==
    segmentIndex * (audioBuffer.length \div numberOfSegments)

SegmentEnd(audioBuffer, numberOfSegments, segmentIndex) ==
    Min2(SegmentStart(audioBuffer, numberOfSegments, segmentIndex)
            + (audioBuffer.length \div numberOfSegments),
         audioBuffer.length)

\* rawBrightnessValues: per segment the average normalized centroid of its
\* frames, 0.5 for a segment shorter than a window
RawBrightnessValues(audioBuffer, numberOfSegments) ==
    [i \in 1..numberOfSegments |->
        LET start == SegmentStart(audioBuffer, numberOfSegments, i - 1)
            end   == SegmentEnd(audioBuffer, numberOfSegments, i - 1)
            sum   == SumFrames(audioBuffer, start, end, "centroid")
        IN  IF end - start < FFT_SIZE THEN <<1, 2>>
            ELSE IF sum[2] > 0 THEN Frac(sum[1], 1000 * sum[2])
            ELSE <<1, 2>>]

\* rawProminentFrequencyValues: per segment the average frequency of the
\* prominent bin of its frames, sampleRate / 4 for a short segment
RawProminentFrequencyValues(audioBuffer, numberOfSegments) ==
    [i \in 1..numberOfSegments |->
        LET start == SegmentStart(audioBuffer, numberOfSegments, i - 1)
            end   == SegmentEnd(audioBuffer, numberOfSegments, i - 1)
            sum   == SumFrames(audioBuffer, start, end, "bin")
        IN  IF end - start < FFT_SIZE THEN Frac(audioBuffer.sampleRate, 4)
            ELSE IF sum[2] > 0
            THEN Frac(sum[1] * audioBuffer.sampleRate, FFT_SIZE * sum[2])
            ELSE Frac(audioBuffer.sampleRate, 4)]

\* (value - min) / range, range = max - min > 0.001 ? max - min : 1
MinMaxNormalize(values) ==
    LET min   == MinOf(values)
        max   == MaxOf(values)
        range == IF FracLess(<<1, 1000>>, FracSub(max, min))
                 THEN FracSub(max, min) ELSE <<1, 1>>
    IN  [i \in DOMAIN values |-> FracDiv(FracSub(values[i], min), range)]

\* analyzeBrightness without the reset of this.brightnessData: the values are
\* pushed after those of the previous analysis
AnalyzeBrightnessAppending(st, audioBuffer, numberOfSegments) ==
    IF ~st.options.colorizeByBrightness THEN [st EXCEPT !.brightnessData = << >>]
    ELSE LET raw == RawBrightnessValues(audioBuffer, numberOfSegments)
             normalized == MinMaxNormalize(raw)
         IN  [st EXCEPT !.brightnessData = @ \o
                (IF raw = << >> THEN << <<1, 2>> >>
                 ELSE IF st.options.normalizationPower = << >> THEN normalized
                 ELSE [i \in DOMAIN normalized |->
                         Pow(normalized[i], st.options.normalizationPower[1])])]

\* analyzeBrightness(audioBuffer, numberOfSegments)
AnalyzeBrightness(st, audioBuffer, numberOfSegments) ==
    IF ~st.options.colorizeByBrightness THEN [st EXCEPT !.brightnessData = << >>]
    ELSE LET raw == RawBrightnessValues(audioBuffer, numberOfSegments)
             normalized == MinMaxNormalize(raw)
         IN  [st EXCEPT !.brightnessData =
                IF raw = << >> THEN << <<1, 2>> >>
                ELSE IF st.options.normalizationPower = << >> THEN normalized
                ELSE [i \in DOMAIN normalized |->
                        Pow(normalized[i], st.options.normalizationPower[1])]]

\* analyzeProminentFrequency(audioBuffer, numberOfSegments)
AnalyzeProminentFrequency(st, audioBuffer, numberOfSegments) ==
    LET raw == RawProminentFrequencyValues(audioBuffer, numberOfSegments)
    IN  [st EXCEPT !.prominentFrequencyData =
            IF raw = << >> THEN << <<1, 2>> >> ELSE MinMaxNormalize(raw)]

\* numberOfSegments without the Math.max(1, ...) that follows it
NumberOfSegments(audioBuffer, width) ==
    Min2(audioBuffer.length \div FFT_SIZE, Max2(100, CeilDiv(width, 5)))

\* finalNumberOfSegments of render(): width / pixelRatio is the width in px
FinalNumberOfSegments(audioBuffer, width) ==
    LET maxPossibleSegments  == audioBuffer.length \div FFT_SIZE
        segmentsBasedOnWidth == Max2(100, CeilDiv(width, 5))
        numberOfSegments     == Min2(maxPossibleSegments, segmentsBasedOnWidth)
    IN  Max2(1, numberOfSegments)

\* the analysis of render(), in pass k: the call of the analyzer is logged
\* with the number of segments it is passed
Analyze(st, audioBuffer, width, k) ==
    IF st.options.colorizeByBrightness
    THEN LET n == FinalNumberOfSegments(audioBuffer, width)
             called == [st EXCEPT !.log = Append(@, <<"analyze", k, n>>)]
         IN  IF st.options.colorAnalysisType = "prominentFrequency"
             THEN [AnalyzeProminentFrequency(called, audioBuffer, n)
                     EXCEPT !.brightnessData = << >>]
             ELSE [AnalyzeBrightness(called, audioBuffer, n)
                     EXCEPT !.prominentFrequencyData = << >>]
    ELSE [st EXCEPT !.brightnessData = << >>, !.prominentFrequencyData = << >>]

\* useColorization of renderBarWaveform and renderLineWaveform
UseColorization(st) ==
    st.options.colorizeByBrightness /\ Len(st.brightnessData) > 0

\* analysisData, the values the bars of a canvas take their colours from
AnalysisData(st) ==
    IF st.options.colorAnalysisType = "prominentFrequency"
    THEN st.prominentFrequencyData ELSE st.brightnessData

-----------------------------------------------------------------------------
(* renderWaveform on the data of one canvas: the slice that draw() cuts from  *)
(* each channel, and the vertical scale. A sample is its magnitude, Unit for  *)
(* 1.0; a scale is a fraction.                                                *)

\* the channels render() hands to renderChannel when splitChannels is off:
\* the first, and the second if there is one
DrawnChannels(audioBuffer) ==
    SubSeq(audioBuffer.channelData, 1, Min2(2, Len(audioBuffer.channelData)))

\* channel.slice(start, end) of draw(index): start and end are the floors of
\* (offset / totalWidth) * length and ((offset + clampedWidth) / totalWidth) *
\* length
SliceOf(channel, c, index) ==
    LET offset == TileOffset(index, c.singleCanvasWidth)
        width  == TileWidth(index, c.totalWidth, c.singleCanvasWidth)
        start  == (offset * Len(channel)) \div (c.totalWidth * H)
        end    == ((offset + width) * Len(channel)) \div (c.totalWidth * H)
    IN  SubSeq(channel, start + 1, end)

\* the largest magnitude of a list of samples, 0 for none
PeakOf(channel) ==
    IF channel = << >> THEN 0
    ELSE channel[CHOOSE i \in DOMAIN channel :
                    \A j \in DOMAIN channel : channel[j] <= channel[i]]

\* vScale of renderWaveform for the canvas of tile index: barHeight || 1, and
\* in normalize mode 1 / max |channelData[0][i]| over the data it is handed
VScale(o, channelData, c, index) ==
    LET data == [k \in DOMAIN channelData |-> SliceOf(channelData[k], c, index)]
    IN  IF o.normalize /\ PeakOf(data[1]) # 0
        THEN Frac(Unit, PeakOf(data[1]))
        ELSE <<1, 1>>

-----------------------------------------------------------------------------
(* The colorized rasterizers: which element of the analysis data colours a    *)
(* bar or a column of a canvas width pixels wide, the data of n elements.     *)
(* The canvas is handed at least as many samples as it has bars or columns.   *)

\* the bars of renderBarWaveform on a canvas: barCount runs from 0 while
\* x = Math.round(i * barIndexScale) grows, up to Math.round(width / slot)
BarCounts(width, slot) == 0..(((2 * width * H + slot) \div (2 * slot)) - 1)

\* brightnessIndex of renderBarWaveform for bar barCount; slot in half pixels
BrightnessIndex(n, width, slot, barCount) ==
    Min2(n - 1, (barCount * slot * n) \div (width * H))

\* segmentIndex of renderLineWaveform for the pixel column x: the chunk
\* [segmentIndex * segmentWidth, (segmentIndex + 1) * segmentWidth) it is in
SegmentIndexOfColumn(n, width, x) ==
    LET segmentWidth == Max2(1, CeilDiv(width, n))
    IN  x \div segmentWidth

-----------------------------------------------------------------------------
(* render, reRender, zoom, setOptions, onContainerResize                      *)

\* a closure whose containers left the document and whose listener is gone is
\* unreachable: the host reclaims its canvases
Collect(st) ==
    LET live == {st.listeners[i] : i \in DOMAIN st.listeners}
    IN  [st EXCEPT !.closures =
            [i \in DOMAIN @ |->
                IF @[i].attached \/ i \in live THEN @[i]
                ELSE [@[i] EXCEPT !.drawnIndexes = {}, !.canvases = << >>,
                                  !.progress = << >>]]]

\* this.timeouts.forEach((clear) => clear()); this.timeouts = []
ClearTimeouts(st) ==
    [(IF st.timeouts # {} THEN OnClear(st) ELSE st) EXCEPT !.timeouts = {}]

\* this.scrollContainer.clientWidth: the parent's width while the container
\* is in the document, 0 once container.remove() took it out
ScrollContainerWidth(st) == IF st.dom.mounted THEN st.clientWidth ELSE 0

\* this.canvasWrapper.innerHTML = ''; this.progressWrapper.innerHTML = ''
ClearWrappers(st) ==
    [st EXCEPT !.closures = [i \in DOMAIN @ |-> [@[i] EXCEPT !.attached = FALSE]]]

\* Math.ceil((audioData.duration / audioRate) * minPxPerSec)
ScrollWidth(o, duration) == CeilDiv(duration * o.minPxPerSec, o.audioRate)

\* renderChannel for channels i..last of pass k; stops where a channel hangs
RECURSIVE RenderChannels(_, _, _, _, _)
RenderChannels(st, totalWidth, k, i, last) ==
    IF i > last THEN st
    ELSE LET r  == RenderMultiCanvas(st.options, ScrollContainerWidth(st), totalWidth,
                                     st.scrollLeft, st.isScrollable, k)
             id == Len(st.closures) + 1
         IN  IF r.hung
             THEN [st EXCEPT !.hung = TRUE]
             ELSE RenderChannels(
                    [st EXCEPT !.closures = Append(@, r.closure),
                               !.listeners = IF r.subscribed
                                             THEN Append(@, id) ELSE @,
                               !.unsubscribeOnScroll = IF r.subscribed
                                                       THEN Append(@, id) ELSE @,
                               !.log = Append(@, <<"paint", k>>)],
                    totalWidth, k, i + 1, last)

\* emit('render'); the renderChannel calls; then the deferred emit('rendered')
EmitAndPaint(st, totalWidth, k) ==
    LET emitted == [st EXCEPT !.log = Append(@, <<"render", k>>)]
        painted == RenderChannels(emitted, totalWidth, k, 1, st.options.channels)
    IN  IF painted.hung THEN painted
        ELSE [painted EXCEPT !.microtasks = Append(@, <<"rendered", k>>)]

\* render(audioData)
Render(st, duration) ==
    LET s1             == ClearWrappers(ClearTimeouts(st))
        parentWidth    == ScrollContainerWidth(st)
        scrollWidth    == ScrollWidth(st.options, duration)
        scrollable     == scrollWidth > parentWidth
        useParentWidth == st.options.fillParent /\ ~scrollable
        totalWidth     == IF useParentWidth THEN parentWidth ELSE scrollWidth
        ww             == IF useParentWidth THEN Auto ELSE scrollWidth
        s2 == [s1 EXCEPT !.isScrollable = scrollable,
                         !.wrapperWidth = ww,
                         !.scrollLeft = Min2(@, MaxScroll(ww, parentWidth)),
                         !.audioData = duration]
        s3 == Analyze(s2, st.samples, totalWidth, Passes(st.log) + 1)
    IN  EmitAndPaint(Collect(s3), totalWidth, Passes(st.log) + 1)

\* removes the listeners that this.unsubscribeOnScroll holds
Unsubscribe(st) ==
    LET gone == {st.unsubscribeOnScroll[i] : i \in DOMAIN st.unsubscribeOnScroll}
    IN  [st EXCEPT !.listeners = SelectSeq(@, LAMBDA id : id \notin gone),
                   !.unsubscribeOnScroll = << >>]

\* reRender(); the progress overlay is at 0 (renderProgress was not called), so
\* the scroll adjustment adds only what the render clamped away, which the
\* scroll container clamps again
ReRender(st) ==
    LET s1 == Unsubscribe(st)
    IN  IF s1.audioData = 0 THEN s1
        ELSE Render(s1, s1.audioData)

\* destroy(), dragToSeek off so that this.subscriptions is empty:
\* container.remove(), resizeObserver.disconnect(), and the unsubscribe
\* functions of this.unsubscribeOnScroll
Destroy(st) ==
    LET s1 == Unsubscribe(st)
    IN  [s1 EXCEPT !.dom.state = "destroyed",
                   !.dom.mounted = FALSE,
                   !.dom.observing = FALSE]

\* zoom(minPxPerSec)
Zoom(st, minPxPerSec) ==
    ReRender([st EXCEPT !.options.minPxPerSec = minPxPerSec])

\* setOptions(options), the container unchanged and dragToSeek off
SetOptions(st, o) ==
    ReRender([st EXCEPT !.options = o])

\* onContainerResize(), run by the .then of request id
OnContainerResize(st, id) ==
    LET ran   == [st EXCEPT !.handlerRuns[id] = @ + 1]
        width == st.clientWidth
    IN  IF width = st.lastContainerWidth /\ ~st.options.heightAuto THEN ran
        ELSE ReRender([ran EXCEPT !.lastContainerWidth = width])

\* the canvases of canvasWrapper in document order, closures i.. onwards: each
\* as <<closure, tile index, canvas.width>>
RECURSIVE Canvases(_, _)
Canvases(cs, i) ==
    IF i > Len(cs) THEN << >>
    ELSE LET c == cs[i]
             own == [k \in DOMAIN c.canvases |->
                        <<i, c.canvases[k],
                          CanvasPixelWidth(TileWidth(c.canvases[k], c.totalWidth,
                                                     c.singleCanvasWidth))>>]
         IN  (IF c.attached THEN own ELSE << >>) \o Canvases(cs, i + 1)

\* no exportImage call yet
NotExported == [type |-> "none", error |-> "", images |-> << >>]

\* canvas.toDataURL(format, quality): the encoded bitmap, or "data:," for a
\* canvas without pixels
ToDataURL(canvas) ==
    IF canvas[3] > 0 THEN <<"dataURL", canvas[1], canvas[2]>> ELSE <<"data:,">>

\* canvas.toBlob: the encoded bitmap, or null for a canvas without pixels
ToBlob(canvas) ==
    IF canvas[3] > 0 THEN <<"blob", canvas[1], canvas[2]>> ELSE <<"null">>

\* exportImage(format, quality, type): how the promise it returns settles
ExportImage(st, type) ==
    LET canvases == Canvases(st.closures, 1)
        blobs    == [k \in DOMAIN canvases |-> ToBlob(canvases[k])]
    IN  [st EXCEPT !.exported =
            IF Len(canvases) = 0
            THEN [type |-> type, error |-> "No waveform data", images |-> << >>]
            ELSE IF type = "dataURL"
            THEN [type |-> type, error |-> "",
                  images |-> [k \in DOMAIN canvases |-> ToDataURL(canvases[k])]]
            ELSE IF \E k \in DOMAIN blobs : blobs[k] = <<"null">>
            THEN [type |-> type, error |-> "Could not export image",
                  images |-> << >>]
            ELSE [type |-> type, error |-> "", images |-> blobs]]

\* what options.container can be: a selector that matches an element, one that
\* matches none, a string that is no valid selector (querySelector throws a
\* SyntaxError), an HTMLElement, nothing (undefined or null), or another value
Containers ==
    {"selectorMatching", "selectorMatchingNothing", "selectorInvalid",
     "element", "missing", "other"}

\* parentFromOptionsContainer(container): the error it throws, "" for none
ParentFromOptionsContainer(container) ==
    IF container = "selectorInvalid" THEN "SyntaxError"
    ELSE IF container \in {"selectorMatching", "element"} THEN ""
    ELSE "Container not found"

\* before new Renderer(options): nothing is mounted or registered
NotConstructed ==
    [dom |-> [state |-> "new", container |-> "", error |-> "", mounted |-> FALSE,
              domListeners |-> {}, observing |-> FALSE],
     timeouts |-> {}]

\* a constructor that mounts and registers first and resolves the container
\* last
ConstructorResolvesLast(st, container) ==
    LET error == ParentFromOptionsContainer(container)
    IN  [st EXCEPT !.dom = [state |-> IF error = "" THEN "constructed" ELSE "threw",
                            container |-> container, error |-> error,
                            mounted |-> TRUE,
                            domListeners |-> {"click", "dblclick", "scroll"},
                            observing |-> TRUE],
                   !.timeouts = {"resize"}]

\* constructor(options): parentFromOptionsContainer, then initHtml and
\* parent.appendChild(div), then initEvents (dragToSeek off, ResizeObserver
\* available)
Constructor(st, container) ==
    LET error == ParentFromOptionsContainer(container)
    IN  IF error # ""
        THEN [st EXCEPT !.dom = [state |-> "threw", container |-> container,
                                 error |-> error, mounted |-> FALSE,
                                 domListeners |-> {}, observing |-> FALSE]]
        ELSE [st EXCEPT !.dom = [state |-> "constructed", container |-> container,
                                 error |-> "", mounted |-> TRUE,
                                 domListeners |-> {"click", "dblclick", "scroll"},
                                 observing |-> TRUE],
                        !.timeouts = {"resize"}]

-----------------------------------------------------------------------------
(* getColorValue and parseColor.  A stop position or a value v stands for    *)
(* v / Unit; a color string is a record of its notation and its digits.      *)

\* parseColor found no match
Null == << >>

\* 'rgb(r, g, b)'
Rgb(r, g, b) == [format |-> "rgb", c |-> <<r, g, b>>]

\* parseColor(color): rgb()/rgba(), #rrggbb, #rgb with each digit doubled, or
\* null
ParseColor(color) ==
    IF color.format \in {"rgb", "hex"} THEN color.c
    ELSE IF color.format = "shortHex"
    THEN <<color.c[1] * 16 + color.c[1], color.c[2] * 16 + color.c[2],
           color.c[3] * 16 + color.c[3]>>
    ELSE Null

\* Math.max(0, Math.min(1, normalizedValue))
Clamp(v) == Max2(0, Min2(Unit, v))

\* stop x put in front of the list q, whatever its position
InsertStopFirst(q, x) == <<x>> \o q

\* insert stop x into the sorted list q, after the stops that compare equal
RECURSIVE InsertStop(_, _)
InsertStop(q, x) ==
    IF q = << >> THEN <<x>>
    ELSE IF Head(q).stop <= x.stop THEN <<Head(q)>> \o InsertStop(Tail(q), x)
    ELSE <<x>> \o q

\* the stops as they were supplied: the sort forgotten
UnsortedStops(stops) == stops

\* [...colorStops].sort((a, b) => a.stop - b.stop): a stable sort of a copy
RECURSIVE SortStops(_)
SortStops(stops) ==
    IF stops = << >> THEN << >>
    ELSE InsertStop(SortStops(SubSeq(stops, 1, Len(stops) - 1)), stops[Len(stops)])

\* colorStops.sort(...) on the caller's list itself
SortedInPlace(colorStops) == SortStops(colorStops)

\* the caller's list after the call: [...colorStops] sorted a copy
CallersList(colorStops) == colorStops

\* Math.floor in the place of Math.round
FloorChannel(lower, upper, num, den) ==
    (lower * den + num * (upper - lower)) \div den

\* Math.round(lower + (num / den) * (upper - lower)), den > 0: the nearest
\* integer, a half rounded up
RoundChannel(lower, upper, num, den) ==
    (2 * (lower * den + num * (upper - lower)) + den) \div (2 * den)

\* the channel c of the color between two stops
Channel(lowerStop, upperStop, v, c) ==
    LET range == upperStop.stop - lowerStop.stop
        lower == ParseColor(lowerStop.color)[c]
        upper == ParseColor(upperStop.color)[c]
    IN  IF range # 0
        THEN RoundChannel(lower, upper, v - lowerStop.stop, range)
        ELSE RoundChannel(lower, upper, 0, 1)

\* getColorValue(normalizedValue, colorStops)
GetColorValue(normalizedValue, colorStops) ==
    LET v           == Clamp(normalizedValue)
        sortedStops == SortStops(colorStops)
        n           == Len(sortedStops)
        between     == {i \in 1..(n - 1) : /\ v >= sortedStops[i].stop
                                           /\ v <= sortedStops[i + 1].stop}
        lowerIndex  == IF between = {} THEN 1
                       ELSE CHOOSE i \in between : \A j \in between : i <= j
    IN  IF n = 0 THEN Rgb(0, 0, 0)
        ELSE IF n = 1 THEN sortedStops[1].color
        ELSE IF v <= sortedStops[1].stop THEN sortedStops[1].color
        ELSE IF v >= sortedStops[n].stop THEN sortedStops[n].color
        ELSE LET lowerStop == sortedStops[lowerIndex]
                 upperStop == sortedStops[lowerIndex + 1]
             IN  IF \/ ParseColor(lowerStop.color) = Null
                    \/ ParseColor(upperStop.color) = Null
                 THEN lowerStop.color
                 ELSE Rgb(Channel(lowerStop, upperStop, v, 1),
                          Channel(lowerStop, upperStop, v, 2),
                          Channel(lowerStop, upperStop, v, 3))

\* no pure method called
NoProbe == [method |-> "none"]

\* the result of a call that has not run yet
Pending == [format |-> "pending", c |-> << >>]

-----------------------------------------------------------------------------
(* Bounds and input sets *)

\* render passes started by calls of the API (render, reRender, zoom, setOptions)
MaxRenders == 2

\* resize notifications
MaxResizes == 2

\* the colorizeByBrightness switches after the first render
MaxToggles == 2

\* AudioBuffer.duration, in seconds
Durations == {1}

\* <<options.barWidth, options.barGap>>, 0 for unset
BarConfigs == {<<0, 0>>, <<3, 0>>, <<0, 2>>, <<2, 1>>}

\* the options with bar configuration in B, minPxPerSec in M, channels in C
OptionsOf(B, M, C) ==
    {o \in [barWidth : {b[1] : b \in B}, barGap : {b[2] : b \in B},
            minPxPerSec : M, audioRate : {1}, fillParent : {TRUE},
            heightAuto : {FALSE}, channels : C, colorizeByBrightness : {FALSE},
            colorAnalysisType : {"spectralCentroid"},
            normalizationPower : {<< >>}, normalize : {FALSE}] :
        <<o.barWidth, o.barGap>> \in B}

\* the options of O with colorizeByBrightness on, a colorAnalysisType of T and
\* a normalizationPower of P
ColorizedOptionsOf(O, T, P) ==
    {[o EXCEPT !.colorizeByBrightness = TRUE, !.colorAnalysisType = t,
               !.normalizationPower = p] : o \in O, t \in T, p \in P}

\* what a window can hold: silence, and three spectra
Windows ==
    {[centroid |-> 0, bin |-> 0], [centroid |-> 500, bin |-> 10],
     [centroid |-> 501, bin |-> 10], [centroid |-> 1000, bin |-> 63]}

\* the number of windows a buffer of n samples has hops for
HopsOf(n) == IF n < FFT_SIZE THEN 0 ELSE (n - FFT_SIZE) \div HopSize + 1

\* the buffers of n samples at 16 kHz
BuffersOf(n) ==
    [length : {n}, sampleRate : {16000}, windows : [1..HopsOf(n) -> Windows],
     channelData : {<<[i \in 1..n |-> Unit]>>}]

\* the buffers shorter than a window whose channels are in D: lists of sample
\* magnitudes, Unit for 1.0
SampledBuffers(D) ==
    {[length |-> Len(d[1]), sampleRate |-> 16000, windows |-> << >>,
      channelData |-> d] : d \in D}

\* a buffer of n samples of silence
Silence(n) ==
    [length |-> n, sampleRate |-> 16000,
     windows |-> [h \in 1..HopsOf(n) |-> [centroid |-> 0, bin |-> 0]],
     channelData |-> <<[i \in 1..n |-> 0]>>]

-----------------------------------------------------------------------------
(* The Segments plugin (plugins/index.ts).  A segment is [start, end] in      *)
(* seconds; an element is a segment's div: the initSegments run that built   *)
(* it, its style left and width in pixels, the wasVisible of its              *)
(* virtualAppend closure, and whether it is a child of its segmentsContainer. *)
(* The timelines are such that left and width are whole pixels, the width at  *)
(* least the two borders, so that offsetWidth is the style width.  The        *)
(* wavesurfer is the renderer: getDuration() is the duration of audioData,    *)
(* getScroll() and getWidth() are scrollLeft and clientWidth of the scroll    *)
(* container, and it emits 'redraw' when the renderer emits 'render'.         *)

\* no Segments plugin is registered
NoPlugin ==
    [state |-> "none", segments |-> << >>, elements |-> << >>,
     subscriptions |-> << >>, builds |-> 0]

\* renderIfVisible(scrollLeft, scrollRight) of the closure of element e
RenderIfVisible(e, scrollLeftNow, scrollRight) ==
    LET isVisible == e.start <= scrollRight /\ e.start + e.width >= scrollLeftNow
    IN  IF isVisible = e.wasVisible THEN e
        ELSE [e EXCEPT !.wasVisible = isVisible, !.attached = isVisible]

\* virtualAppend(start, container, element): the first evaluation, and the
\* 'scroll' subscription pushed to this.subscriptions
VirtualAppend(st, e) ==
    LET id == Len(st.plugin.elements) + 1
    IN  [st EXCEPT !.plugin.elements =
                       Append(@, RenderIfVisible(e, st.scrollLeft,
                                                 st.scrollLeft + st.clientWidth)),
                   !.plugin.subscriptions = Append(@, id)]

\* segments.forEach of initSegments, from segment i on, for a wrapper
\* scrollWidth pixels wide
RECURSIVE CreateSegments(_, _, _)
CreateSegments(st, scrollWidth, i) ==
    IF i > Len(st.plugin.segments) THEN st
    ELSE LET segment       == st.plugin.segments[i]
             startPosition == (segment.start * scrollWidth) \div st.audioData
             endPosition   == (segment.end * scrollWidth) \div st.audioData
             element       == [build |-> st.plugin.builds, start |-> startPosition,
                               width |-> endPosition - startPosition,
                               wasVisible |-> FALSE, attached |-> FALSE]
         IN  CreateSegments(VirtualAppend(st, element), scrollWidth, i + 1)

\* initSegments(): nothing without a duration; else a new segmentsContainer
\* with the elements of the configured segments takes the place of the
\* content of segmentsWrapper
InitSegments(st) ==
    IF st.audioData <= 0 THEN st
    ELSE LET scrollWidth == IF st.wrapperWidth = Auto THEN st.clientWidth
                            ELSE st.wrapperWidth
         IN  CreateSegments([st EXCEPT !.plugin.builds = @ + 1], scrollWidth, 1)

\* new SegmentsPlugin({ segments }) and onInit(): the 'redraw' subscription,
\* and initSegments() if the wavesurfer has a duration
OnInit(st, segments) ==
    LET created == [st EXCEPT !.plugin = [NoPlugin EXCEPT !.state = "registered",
                                                          !.segments = segments]]
    IN  IF created.audioData # 0 THEN InitSegments(created) ELSE created

\* the wavesurfer emits 'redraw'
EmitRedraw(st) == IF st.plugin.state = "registered" THEN InitSegments(st) ELSE st

\* setSegments(segments)
SetSegments(st, segments) == InitSegments([st EXCEPT !.plugin.segments = segments])

\* setOptions(options) of the plugin: options is << >> without a segments key,
\* else <<segments>>
SegmentsSetOptions(st, o) ==
    InitSegments(IF o = << >> THEN st ELSE [st EXCEPT !.plugin.segments = o[1]])

\* the 'scroll' listeners of this.subscriptions run
EmitScroll(st) ==
    LET active == {st.plugin.subscriptions[i] : i \in DOMAIN st.plugin.subscriptions}
    IN  [st EXCEPT !.plugin.elements =
            [id \in DOMAIN @ |->
                IF id \in active
                THEN RenderIfVisible(@[id], st.scrollLeft,
                                     st.scrollLeft + st.clientWidth)
                ELSE @[id]]]

-----------------------------------------------------------------------------
(* The state after construction, and the steps of the host *)

\* the field initializers of the class, with options from O, in a parent of a
\* width from W
FieldsOf(O, W) ==
    /\ options \in O
    /\ audioData = 0
    /\ clientWidth \in W
    /\ scrollLeft = 0
    /\ wrapperWidth = Auto
    /\ isScrollable = FALSE
    /\ lastContainerWidth = 0
    /\ timeout = 0
    /\ reject = 0
    /\ armed = {}
    /\ requests = << >>
    /\ handlerRuns = << >>
    /\ closures = << >>
    /\ listeners = << >>
    /\ unsubscribeOnScroll = << >>
    /\ microtasks = << >>
    /\ log = << >>
    /\ exported = NotExported
    /\ brightnessData = << >>
    /\ prominentFrequencyData = << >>
    /\ plugin = NoPlugin
    /\ hung = FALSE

\* the state after new Renderer(options) with an element as the container:
\* initHtml, initEvents (createDelay registers onClear)
Constructed(O, W) ==
    /\ FieldsOf(O, W)
    /\ timeouts = Constructor(NotConstructed, "element").timeouts
    /\ dom = Constructor(NotConstructed, "element").dom

\* that state, no pure method called yet, the buffer to render one of silence
InitOf(O, W) ==
    /\ Constructed(O, W)
    /\ probe = NoProbe
    /\ samples = Silence(0)

\* code of the application runs: not while a promise reaction of the renderer
\* is due, and not once the thread is stuck
MayCall ==
    /\ ~hung
    /\ dom.state = "constructed"
    /\ \A i \in DOMAIN microtasks : microtasks[i][1] # "resize"
    /\ Passes(log) < MaxRenders + Len(requests)

\* the host starts a new task: the microtask queue is empty
MayDispatch == ~hung /\ microtasks = << >> /\ dom.state = "constructed"

CallRenderOf(D) ==
    /\ MayCall
    /\ \E d \in D : Becomes(Render(Cur, d))

CallReRender ==
    /\ MayCall
    /\ Becomes(ReRender(Cur))

CallZoomOf(M) ==
    /\ MayCall
    /\ \E m \in M : Becomes(Zoom(Cur, m))

CallSetOptionsOf(O) ==
    /\ MayCall
    /\ \E o \in O : Becomes(SetOptions(Cur, o))

\* the container takes a width cw of W and the ResizeObserver callback runs
\* delay()
ResizeNotifyOf(W) ==
    /\ MayDispatch
    /\ Len(requests) < MaxResizes
    /\ \E cw \in W :
         Becomes(Delay([Cur EXCEPT !.clientWidth = cw,
                                   !.scrollLeft = Min2(@, MaxScroll(wrapperWidth, cw))]))

\* a scheduled timer expires
TimerFires ==
    /\ MayDispatch
    /\ \E id \in armed : Becomes(TimerCallback(Cur, id))

\* the host runs the first microtask
RunMicrotask ==
    /\ ~hung
    /\ microtasks # << >>
    /\ LET m    == Head(microtasks)
           rest == [Cur EXCEPT !.microtasks = Tail(@)]
       IN  IF m[1] = "resize"
           THEN Becomes(OnContainerResize(rest, m[2]))
           ELSE Becomes([rest EXCEPT !.log = Append(@, <<"rendered", m[2]>>)])

\* every 'scroll' listener runs, in subscription order, at scroll offset s
RECURSIVE Notify(_, _, _)
Notify(cs, ls, s) ==
    IF ls = << >> THEN cs
    ELSE Notify([cs EXCEPT ![Head(ls)] = ScrollListener(@, s)], Tail(ls), s)

\* the scroll container is scrolled to an offset s of S and its 'scroll' event
\* is emitted
ScrollEventOf(S) ==
    /\ MayDispatch
    /\ \E s \in S :
         /\ s <= MaxScroll(wrapperWidth, clientWidth)
         /\ Becomes([Cur EXCEPT !.scrollLeft = s,
                                !.closures = Notify(@, listeners, s)])

\* the application calls exportImage with a type of Y
CallExportImageOf(Y) ==
    /\ MayCall
    /\ \E type \in Y : Becomes(ExportImage(Cur, type))

\* the application constructs the renderer with a container of K
ConstructOf(K) ==
    /\ dom.state = "new"
    /\ \E container \in K : Becomes(Constructor(Cur, container))

\* getColorValue runs on the arguments of the probe
CallGetColorValue ==
    /\ probe.method = "getColorValue"
    /\ probe.result = Pending
    /\ probe' = [probe EXCEPT !.result = GetColorValue(probe.value, probe.stops),
                              !.caller = CallersList(probe.stops)]
    /\ UNCHANGED << options, audioData, clientWidth, scrollLeft, wrapperWidth,
                    isScrollable, lastContainerWidth, timeouts, timeout, reject,
                    armed, requests, handlerRuns, closures, listeners,
                    unsubscribeOnScroll, microtasks, log, exported, dom, samples,
                    brightnessData, prominentFrequencyData, plugin, hung >>

\* the analyzer named by the probe runs on the buffer, for the number of
\* segments of the probe
CallAnalyze ==
    /\ probe.method \in {"analyzeBrightness", "analyzeProminentFrequency"}
    /\ ~probe.done
    /\ LET called == [Cur EXCEPT !.probe.done = TRUE]
       IN  IF probe.method = "analyzeBrightness"
           THEN Becomes(AnalyzeBrightness(called, samples, probe.numberOfSegments))
           ELSE Becomes(AnalyzeProminentFrequency(called, samples,
                                                  probe.numberOfSegments))

\* the application switches colorizeByBrightness through setOptions
ToggleColorize ==
    /\ ~hung
    /\ dom.state = "constructed"
    /\ Passes(log) < 1 + MaxToggles
    /\ Becomes(SetOptions(Cur, [options EXCEPT !.colorizeByBrightness = ~@]))

-----------------------------------------------------------------------------
(* Spec: the calls of the API and scroll events, on a small timeline: 91 px   *)
(* of waveform in a container of 4 or 10 px, with and without bars            *)

LifeOptions == OptionsOf({<<0, 0>>, <<3, 0>>}, {0, 91}, {1, 2})

LifeWidths == {4, 10}

LifePositions == {0, 45}

Init == InitOf(LifeOptions, LifeWidths)

CallRender == CallRenderOf(Durations)

CallZoom == CallZoomOf({0, 91})

CallSetOptions == CallSetOptionsOf(LifeOptions)

ScrollEvent == ScrollEventOf(LifePositions)

Next ==
    \/ CallRender
    \/ CallReRender
    \/ CallZoom
    \/ CallSetOptions
    \/ RunMicrotask
    \/ ScrollEvent

Spec == Init /\ [][Next]_vars

-----------------------------------------------------------------------------
(* SpecResize: resize notifications, the debounce timer and the renders that  *)
(* meet them                                                                  *)

ResizeOptions == OptionsOf({<<0, 0>>}, {91}, {1})

InitResize == InitOf(ResizeOptions, LifeWidths)

ZoomAgain == CallZoomOf({91})

ResizeNotify == ResizeNotifyOf(LifeWidths)

NextResize ==
    \/ CallRender
    \/ ZoomAgain
    \/ ResizeNotify
    \/ TimerFires
    \/ RunMicrotask

SpecResize == InitResize /\ [][NextResize]_vars

-----------------------------------------------------------------------------
(* SpecDestroy: renders, resize notifications and destroy(), and the timers   *)
(* and promise reactions the host still runs afterwards                       *)

\* the application calls destroy()
CallDestroy ==
    /\ ~hung
    /\ dom.state = "constructed"
    /\ \A i \in DOMAIN microtasks : microtasks[i][1] # "resize"
    /\ Becomes(Destroy(Cur))

\* a scheduled timer expires, the renderer destroyed or not
TimerExpires ==
    /\ ~hung
    /\ microtasks = << >>
    /\ \E id \in armed : Becomes(TimerCallback(Cur, id))

DestroyOptions == OptionsOf({<<0, 0>>, <<3, 0>>}, {0, 91}, {1})

InitDestroy == InitOf(DestroyOptions, LifeWidths)

NextDestroy ==
    \/ CallRender
    \/ ResizeNotify
    \/ TimerExpires
    \/ RunMicrotask
    \/ CallDestroy

SpecDestroy == InitDestroy /\ [][NextDestroy]_vars

-----------------------------------------------------------------------------
(* SpecPlugin: a wavesurfer with the Segments plugin: a 4 s buffer on a       *)
(* timeline of 100 px in a container of 20 px, or filling a container of 8   *)
(* or 20 px                                                                   *)

\* the initSegments runs that build elements
MaxBuilds == 3

PluginOptions == OptionsOf({<<0, 0>>}, {0, 25}, {1})

PluginWidths == {8, 20}

SegmentLists ==
    {<< >>,
     <<[start |-> 0, end |-> 1]>>,
     <<[start |-> 3, end |-> 4]>>,
     <<[start |-> 0, end |-> 1], [start |-> 2, end |-> 4]>>}

InitPlugin == InitOf(PluginOptions, PluginWidths)

MayBuild == MayCall /\ plugin.builds < MaxBuilds

\* wavesurfer.registerPlugin(SegmentsPlugin.create({ segments }))
Register ==
    /\ MayCall
    /\ plugin.state = "none"
    /\ \E q \in SegmentLists : Becomes(OnInit(Cur, q))

\* the buffer is rendered and 'redraw' is emitted
Redraw ==
    /\ MayBuild
    /\ Becomes(EmitRedraw(Render(Cur, 4)))

CallSetSegments ==
    /\ MayBuild
    /\ plugin.state = "registered"
    /\ \E q \in SegmentLists : Becomes(SetSegments(Cur, q))

CallSegmentsSetOptions ==
    /\ MayBuild
    /\ plugin.state = "registered"
    /\ \E o \in {<< >>} \cup {<<q>> : q \in SegmentLists} :
         Becomes(SegmentsSetOptions(Cur, o))

\* the scroll container is scrolled and 'scroll' reaches the tile managers and
\* the plugin
SegmentsScroll ==
    /\ MayDispatch
    /\ \E s \in {0, 40, 80} :
         /\ s <= MaxScroll(wrapperWidth, clientWidth)
         /\ Becomes(EmitScroll([Cur EXCEPT !.scrollLeft = s,
                                           !.closures = Notify(@, listeners, s)]))

NextPlugin ==
    \/ Register
    \/ Redraw
    \/ CallSetSegments
    \/ CallSegmentsSetOptions
    \/ SegmentsScroll
    \/ RunMicrotask

SpecPlugin == InitPlugin /\ [][NextPlugin]_vars

-----------------------------------------------------------------------------
(* SpecScroll: one render and any sequence of scroll events over a timeline   *)
(* of up to 23 tiles                                                          *)

ScrollOptions == OptionsOf(BarConfigs, {0, 5, 91}, {1})

ScrollPositions == {0, 19, 30, 38, 50, 60, 81}

InitScroll == InitOf(ScrollOptions, LifeWidths)

\* the application renders once
FirstRender == audioData = 0 /\ CallRenderOf(Durations)

ScrollTo == ScrollEventOf(ScrollPositions)

NextScroll ==
    \/ FirstRender
    \/ RunMicrotask
    \/ ScrollTo

SpecScroll == InitScroll /\ [][NextScroll]_vars

-----------------------------------------------------------------------------
(* SpecTiles: the tile partition of one render, over the widths at which the  *)
(* tile width cap, the container width and the bar unit take effect           *)

TileOptions ==
    OptionsOf(BarConfigs, {0, 1, 5, 91, 7999, 8000, 8001, 16000, 20000}, {1, 2})

TileWidths == {0, 1, 4, 10, 300, 8000, 9000, 20000, 30000}

InitTiles == InitOf(TileOptions, TileWidths)

NextTiles ==
    \/ CallRender
    \/ RunMicrotask

SpecTiles == InitTiles /\ [][NextTiles]_vars

-----------------------------------------------------------------------------
(* SpecExport: exportImage before and after a render, in containers with and  *)
(* without a width, and after scrolling                                       *)

ExportOptions == OptionsOf({<<0, 0>>, <<3, 0>>}, {0, 91}, {1, 2})

ExportWidths == {0, 4, 10}

InitExport == InitOf(ExportOptions, ExportWidths)

ScrollSome == ScrollEventOf({0, 38, 81})

CallExportImage == CallExportImageOf({"dataURL", "blob"})

NextExport ==
    \/ FirstRender
    \/ RunMicrotask
    \/ ScrollSome
    \/ CallExportImage

SpecExport == InitExport /\ [][NextExport]_vars

-----------------------------------------------------------------------------
(* SpecConstruct: the construction with every kind of container, and the life *)
(* of the renderer after it                                                   *)

InitConstruct ==
    /\ FieldsOf(LifeOptions, LifeWidths)
    /\ dom = NotConstructed.dom
    /\ timeouts = NotConstructed.timeouts
    /\ probe = NoProbe
    /\ samples = Silence(0)

Construct == ConstructOf(Containers)

NextConstruct ==
    \/ Construct
    \/ CallRender
    \/ CallZoom
    \/ RunMicrotask
    \/ ScrollEvent

SpecConstruct == InitConstruct /\ [][NextConstruct]_vars

-----------------------------------------------------------------------------
(* SpecColors: getColorValue on lists of up to three stops, in any order, with *)
(* repeated positions, in every notation parseColor knows and one it does not  *)

StopPositions == {0, 1, 2, 4}

StopColors ==
    {Rgb(0, 0, 0), Rgb(255, 255, 255),
     [format |-> "hex", c |-> <<255, 0, 10>>],
     [format |-> "shortHex", c |-> <<0, 15, 8>>],
     [format |-> "named", c |-> << >>]}

Stops == [stop : StopPositions, color : StopColors]

StopLists ==
    {<< >>} \cup {<<a>> : a \in Stops} \cup {<<a, b>> : a \in Stops, b \in Stops}
    \cup {<<a, b, c>> : a \in Stops, b \in Stops, c \in Stops}

Values == (0 - 1)..(Unit + 1)

InitColors ==
    /\ Constructed(ResizeOptions, {10})
    /\ probe \in {[method |-> "getColorValue", value |-> v, stops |-> q,
                   caller |-> q, result |-> Pending] : v \in Values, q \in StopLists}
    /\ samples = Silence(0)

NextColors == CallGetColorValue

SpecColors == InitColors /\ [][NextColors]_vars

-----------------------------------------------------------------------------
(* SpecAnalyze: the two analyzers, called on buffers of 0, 100, 256 and 384   *)
(* samples (of the latter those silent but in three windows) for 1 to 3       *)
(* segments, with and without a normalizationPower                            *)

AnalyzeOptions ==
    ColorizedOptionsOf(OptionsOf({<<0, 0>>}, {91}, {1}), {"spectralCentroid"},
                       {<< >>, <<0>>, <<1>>, <<2>>, <<0 - 1>>})

AnalyzeBuffers ==
    BuffersOf(0) \cup BuffersOf(100) \cup BuffersOf(256)
        \cup {b \in BuffersOf(384) :
                \A h \in DOMAIN b.windows : h \notin {1, 5, 9} => b.windows[h].bin = 0}

InitAnalyze ==
    /\ Constructed(AnalyzeOptions, {10})
    /\ samples \in AnalyzeBuffers
    /\ probe \in [method : {"analyzeBrightness", "analyzeProminentFrequency"},
                  numberOfSegments : 1..3, done : {FALSE}]

NextAnalyze == CallAnalyze

SpecAnalyze == InitAnalyze /\ [][NextAnalyze]_vars

-----------------------------------------------------------------------------
(* SpecFeatures: render, reRender and the colorizeByBrightness toggle on      *)
(* buffers of 0, 100 and 256 samples whose first window varies, 91 px         *)
(* of waveform in a container of 10 px                                        *)

FeatureOptions ==
    LET plain == OptionsOf({<<0, 0>>, <<3, 0>>}, {0, 91}, {1})
    IN  plain \cup ColorizedOptionsOf(plain,
                                      {"spectralCentroid", "prominentFrequency"},
                                      {<<2>>})

FeatureBuffers ==
    BuffersOf(0) \cup BuffersOf(100)
        \cup {b \in BuffersOf(256) : /\ \A h \in 2..4 : b.windows[h].centroid = 0
                                     /\ b.windows[5].centroid = 1000}

InitFeatures ==
    /\ Constructed(FeatureOptions, {10})
    /\ samples \in FeatureBuffers
    /\ probe = NoProbe

ScrollFar == ScrollEventOf({0, 81})

NextFeatures ==
    \/ FirstRender
    \/ CallReRender
    \/ ToggleColorize
    \/ ScrollFar
    \/ RunMicrotask

SpecFeatures == InitFeatures /\ [][NextFeatures]_vars

-----------------------------------------------------------------------------
(* SpecNormalize: normalize mode on buffers of four samples in one or two     *)
(* channels, 20 or 91 px of waveform (or the width of the container) in a     *)
(* container of 4 or 10 px                                                    *)

NormalizeOptions ==
    {[o EXCEPT !.normalize = TRUE] :
        o \in OptionsOf({<<0, 0>>, <<2, 1>>}, {0, 20, 91}, {1})}

Magnitudes == {0, 2, Unit}

NormalizeBuffers ==
    SampledBuffers({<<a>> : a \in [1..4 -> Magnitudes]}
                     \cup {<<a, [i \in 1..4 |-> Unit]>> : a \in [1..4 -> {0, 2}]})

InitNormalize ==
    /\ Constructed(NormalizeOptions, {4, 10})
    /\ samples \in NormalizeBuffers
    /\ probe = NoProbe

NextNormalize ==
    \/ FirstRender
    \/ ScrollFar
    \/ RunMicrotask

SpecNormalize == InitNormalize /\ [][NextNormalize]_vars

-----------------------------------------------------------------------------
(* Vocabulary of the properties *)

Range(q) == {q[i] : i \in DOMAIN q}

\* the tile indices whose canvas is in the closure's canvas container
Mounted(c) == Range(c.canvases)

\* those of index - 1, index, index + 1 that draw() does not turn away: not
\* below 0 and not at or above numCanvases
Window(index, n) ==
    {j \in {Minus1(index), index, Plus1(index)} : ~Negative(j) /\ ~AtLeast(j, n)}

\* the closures of the render pass whose canvases are in the document
Current == {id \in DOMAIN closures : closures[id].attached}

\* a closure that got as far as computing its tiles
Tiled(c) == ~(c.singleCanvasWidth = 0 /\ c.numCanvases = 0)

\* a set of integers without a hole
Contiguous(S) == \A a \in S, b \in S : \A x \in a..b : x \in S

-----------------------------------------------------------------------------
(* C1 *)

\* the tiles 0..n-1 of width w (half pixels) over totalWidth (pixels) all have
\* a positive width of at most the cap, start where the previous one ends,
\* the first at 0, and the last ends at totalWidth
TilesPartition(totalWidth, w, n) ==
    /\ w > 0
    /\ n # Infinity
    /\ n >= 1
    /\ \A i \in 0..(n - 1) :
         /\ TileWidth(i, totalWidth, w) > 0
         /\ TileWidth(i, totalWidth, w) <= MAX_CANVAS_WIDTH * H
         /\ TileOffset(i, w) =
              IF i = 0 THEN 0
              ELSE TileOffset(i - 1, w) + TileWidth(i - 1, totalWidth, w)
    /\ TileOffset(n - 1, w) + TileWidth(n - 1, totalWidth, w) = totalWidth * H

\* C1: whenever the tile manager computes tiles for a total width > 0 (whatever
\* the viewport width and the bar configuration), the tiles have positive width,
\* none is wider than the 8000 px cap, and together they cover exactly
\* [0, totalWidth) without gap or overlap.
C1_TilesPartition ==
    \A id \in Current :
        LET c == closures[id]
        IN  (Tiled(c) /\ c.totalWidth > 0) =>
                TilesPartition(c.totalWidth, c.singleCanvasWidth, c.numCanvases)

-----------------------------------------------------------------------------
(* C2 *)

\* C2: in the scrollable case, after the initial render and after every scroll
\* notification, the tile that contains the scroll offset, floor(scrollLeft /
\* tileWidth), and its neighbours within 0..numTiles-1 are materialized.
C2_TileUnderScrollAndNeighbours ==
    \A id \in Current :
        LET c == closures[id]
            t == (scrollLeft * H) \div c.singleCanvasWidth
        IN  (isScrollable /\ c.singleCanvasWidth > 0) =>
                \A j \in {t - 1, t, t + 1} :
                    (0 <= j /\ j < c.numCanvases) => j \in Mounted(c)

-----------------------------------------------------------------------------
(* C3 *)

\* the index the scroll listener of closure c computes at the new scroll offset
IndexAfter(c) == CanvasIndex(scrollLeft', c.totalWidth, c.numCanvases)

-----------------------------------------------------------------------------
(* C4 *)

-----------------------------------------------------------------------------
(* C5 *)

\* C5: a scroll notification that finds more than MAX_NODES tiles tracked
\* destroys every tracked canvas and progress canvas and the tracking state
\* before it draws the window; so no canvas container ever holds more than
\* MAX_NODES + 3 = 13 canvases, and it always holds as many canvases as there
\* are tracked indices.
C5_BoundedChurn ==
    /\ [](\A id \in DOMAIN closures :
            LET c == closures[id]
            IN  /\ Len(c.canvases) <= MAX_NODES + 3
                /\ Len(c.canvases) = Cardinality(c.drawnIndexes)
                /\ Len(c.progress) <= MAX_NODES + 3
                /\ Range(c.progress) \subseteq Mounted(c))
    /\ [][ScrollTo =>
            \A id \in Range(listeners) :
                Cardinality(closures[id].drawnIndexes) > MAX_NODES =>
                    LET w == Window(IndexAfter(closures[id]),
                                    closures[id].numCanvases)
                    IN  /\ closures'[id].drawnIndexes = w
                        /\ Mounted(closures'[id]) = w
                        /\ Range(closures'[id].progress) \subseteq w]_vars

\* a canvas container that holds 13 canvases: 10 tracked, then a window of 3
C5_Witness ==
    \E id \in DOMAIN closures : Len(closures[id].canvases) = MAX_NODES + 3

-----------------------------------------------------------------------------
(* C6 *)

\* C6: at any time the only active tile-manager scroll listeners are those of
\* the most recent render pass, however the passes were started (render,
\* reRender, zoom, setOptions).
C6_OnlyLatestPassListens ==
    \A id \in Range(listeners) : closures[id].pass = Passes(log)

-----------------------------------------------------------------------------
(* C7 *)

\* the queued reactions that will run onContainerResize for request r
Reactions(r) ==
    Cardinality({i \in DOMAIN microtasks : microtasks[i] = <<"resize", r>>})

\* C7: every resize notification cancels the pending request and starts a new
\* timer, so only the newest request can be pending and only its timer is
\* scheduled; a cancelled request never runs onContainerResize; a request whose
\* timer expired runs it exactly once, and none runs it twice.
C7_Debounce ==
    /\ armed \subseteq {Len(requests)}
    /\ \A r \in DOMAIN requests :
         /\ r < Len(requests) => requests[r] # "pending"
         /\ requests[r] = "pending" => r \in armed /\ handlerRuns[r] = 0
         /\ requests[r] = "rejected" =>
                r \notin armed /\ handlerRuns[r] = 0 /\ Reactions(r) = 0
         /\ requests[r] = "resolved" => handlerRuns[r] + Reactions(r) = 1

\* a burst of two notifications before any render: the first request was
\* cancelled by the second, and the handler ran once, for the second
C7_Witness ==
    /\ timeouts # {}
    /\ requests = <<"rejected", "resolved">>
    /\ handlerRuns = <<0, 1>>

-----------------------------------------------------------------------------
(* C8 *)

\* C8: whenever a render starts, the first or a later one, no resize debounce
\* timer is left scheduled by it.
C8_RenderCancelsTimer ==
    [][Passes(log') > Passes(log) => armed' = {}]_vars

-----------------------------------------------------------------------------
(* C9 *)

Count(kind, k) == Cardinality({i \in DOMAIN log : log[i] = <<kind, k>>})

\* the deferred emit('rendered') of pass k that are still queued
Deferred(k) ==
    Cardinality({i \in DOMAIN microtasks : microtasks[i] = <<"rendered", k>>})

\* C9: each render() call emits 'render' exactly once, before any of its
\* paints, and 'rendered' exactly once (delivered, or queued for delivery),
\* after all of its paints.
C9_RenderPaintRendered ==
    \A k \in 1..Passes(log) :
        /\ Count("render", k) = 1
        /\ Count("rendered", k) + Deferred(k) = 1
        /\ \A i \in DOMAIN log, j \in DOMAIN log :
             /\ (log[i] = <<"render", k>> /\ log[j] = <<"paint", k>>) => i < j
             /\ (log[i] = <<"paint", k>> /\ log[j] = <<"rendered", k>>) => i < j

-----------------------------------------------------------------------------
(* C10 *)

\* C10: when the timeline is not wider than the viewport, the render pass
\* completes with every tile 0..numTiles-1 materialized exactly once and
\* without a scroll subscription, and scroll notifications change nothing.
C10_EagerDrawsAllOnce ==
    (audioData # 0 /\ ~isScrollable) =>
        /\ ~hung
        /\ \A id \in Current :
             LET c == closures[id]
             IN  /\ Mounted(c) = 0..(c.numCanvases - 1)
                 /\ Len(c.canvases) = c.numCanvases
                 /\ id \notin Range(listeners)

-----------------------------------------------------------------------------
(* C11 *)

\* the closure's tiles are [0,8000), [8000,16000), [16000,20000)
ThreeTiles(c) ==
    LET w == c.singleCanvasWidth
        T == c.totalWidth
    IN  /\ c.numCanvases = 3
        /\ TileOffset(0, w) = 0
        /\ TileWidth(0, T, w) = 8000 * H
        /\ TileOffset(1, w) = 8000 * H
        /\ TileWidth(1, T, w) = 8000 * H
        /\ TileOffset(2, w) = 16000 * H
        /\ TileWidth(2, T, w) = 4000 * H

NoBars == options.barWidth = 0 /\ options.barGap = 0

-----------------------------------------------------------------------------
(* C12 *)

\* C12: exportImage fails exactly when canvasWrapper holds no canvas (before
\* the first render, or after a render that drew no tile), and then with 'No
\* waveform data'; otherwise it succeeds with exactly one encoded image per
\* canvas the wrapper holds.
C12_ExportFailsIffNoTile ==
    [][CallExportImage =>
        LET canvases == Canvases(closures, 1)
        IN  /\ exported'.error # "" <=> Len(canvases) = 0
            /\ Len(canvases) = 0 => exported'.error = "No waveform data"
            /\ Len(canvases) > 0 =>
                 /\ Len(exported'.images) = Len(canvases)
                 /\ \A k \in DOMAIN canvases :
                      /\ Len(exported'.images[k]) = 3
                      /\ exported'.images[k][2] = canvases[k][1]
                      /\ exported'.images[k][3] = canvases[k][2]]_vars

-----------------------------------------------------------------------------
(* C13 *)

\* the containers that are missing or do not resolve to an element
Unresolved == Containers \ {"selectorMatching", "element"}

\* nothing is mounted and no listener, observer or debounce is registered
NothingRegistered ==
    /\ ~dom.mounted
    /\ dom.domListeners = {}
    /\ ~dom.observing
    /\ timeouts = {}
    /\ listeners = << >>

\* C13 as claimed: constructing with a container that is missing or does not
\* resolve to an element throws 'Container not found', before anything is
\* mounted or registered.
C13_ContainerNotFound ==
    (dom.state # "new" /\ dom.container \in Unresolved) =>
        /\ dom.state = "threw"
        /\ dom.error = "Container not found"
        /\ NothingRegistered

\* C13 as amended: constructing with a container that is missing or does not
\* resolve to an element throws before anything is mounted or registered:
\* 'Container not found' when the container is missing, is neither a string nor
\* an HTMLElement, or is a selector that matches nothing; the SyntaxError of
\* querySelector when it is a string that is no valid selector.
C13_ConstructionThrowsFirst ==
    (dom.state # "new" /\ dom.container \in Unresolved) =>
        /\ dom.state = "threw"
        /\ dom.error = IF dom.container = "selectorInvalid"
                       THEN "SyntaxError" ELSE "Container not found"
        /\ NothingRegistered

\* a construction with a selector that matches nothing has thrown
C13_Witness ==
    /\ dom.state = "threw"
    /\ dom.container = "selectorMatchingNothing"
    /\ dom.error = "Container not found"

-----------------------------------------------------------------------------
(* C14 *)

\* C14: for every total width, viewport width and bar configuration a render
\* pass terminates; when the effective tile width is zero nothing is drawn
\* and the call returns.
C14_RenderTerminates ==
    /\ ~hung
    /\ \A id \in Current :
         closures[id].singleCanvasWidth = 0 => closures[id].canvases = << >>

-----------------------------------------------------------------------------
(* C19 *)

\* getColorValue has run on a list of at least two stops whose colors
\* parseColor reads
Mapped ==
    /\ probe.method = "getColorValue"
    /\ probe.result # Pending
    /\ Len(probe.stops) >= 2
    /\ \A k \in DOMAIN probe.stops : ParseColor(probe.stops[k].color) # Null

\* the stops of the probe at the position of its value, by their place in the
\* list as supplied
StopsAtValue == {k \in DOMAIN probe.stops : probe.stops[k].stop = probe.value}

-----------------------------------------------------------------------------
(* C20 *)

\* C20: for a value strictly between the first and the last stop position,
\* there are adjacent sorted stops a, b with a.position <= value <= b.position
\* such that every channel returned is round(a.channel + t (b.channel -
\* a.channel)), t = (value - a.position) / (b.position - a.position) and 0 for
\* a degenerate bracket, a half rounded up, and lies between a.channel and
\* b.channel.
C20_LinearInterpolation ==
    LET sorted == SortStops(probe.stops)
        n      == Len(sorted)
        v      == probe.value
    IN  (Mapped /\ sorted[1].stop < v /\ v < sorted[n].stop) =>
            /\ probe.result.format = "rgb"
            /\ \E i \in 1..(n - 1) :
                 LET a == sorted[i]
                     b == sorted[i + 1]
                     d == b.stop - a.stop
                 IN  /\ a.stop <= v
                     /\ v <= b.stop
                     /\ \A ch \in 1..3 :
                          LET ac == ParseColor(a.color)[ch]
                              bc == ParseColor(b.color)[ch]
                              r  == probe.result.c[ch]
                          IN  /\ Min2(ac, bc) <= r
                              /\ r <= Max2(ac, bc)
                              /\ IF d = 0 THEN r = ac
                                 ELSE /\ 2 * r * d - d
                                           <= 2 * (ac * d + (v - a.stop) * (bc - ac))
                                      /\ 2 * (ac * d + (v - a.stop) * (bc - ac))
                                           < 2 * r * d + d

\* Scenario B: black at 0, white at 1, value 0.5: rgb(128, 128, 128)
C20_Witness ==
    /\ probe.method = "getColorValue"
    /\ probe.stops = <<[stop |-> 0, color |-> Rgb(0, 0, 0)],
                       [stop |-> Unit, color |-> Rgb(255, 255, 255)]>>
    /\ probe.value * 2 = Unit
    /\ probe.result = Rgb(128, 128, 128)

-----------------------------------------------------------------------------
(* C18 *)

\* the analyzer of the probe has run
Analyzed == probe.method # "none" /\ probe.method # "getColorValue" /\ probe.done

\* what the analyzer of the probe has left
Output ==
    IF probe.method = "analyzeBrightness" THEN brightnessData
    ELSE prominentFrequencyData

\* 0 <= x <= 1
InUnitInterval(x) == x[2] > 0 /\ 0 <= x[1] /\ x[1] <= x[2]

\* C18: for every buffer, every requested number of segments >= 1 and both
\* analyzers, the output has exactly the requested length and every one of its
\* values lies in [0, 1], the power transform included.
C18_AnalyzerOutputInRange ==
    Analyzed =>
        /\ Len(Output) = probe.numberOfSegments
        /\ \A i \in DOMAIN Output : InUnitInterval(Output[i])

-----------------------------------------------------------------------------
(* C16 *)

\* render() has painted a canvas that is in the document
Painted == audioData # 0 /\ ~hung /\ Canvases(closures, 1) # << >>

\* C16: after render() with colorizeByBrightness enabled, for either
\* colorAnalysisType, the rasterizer colours by the analysis: useColorization
\* holds and the data of the selected analysis are there to take colours from.
C16_ColorizationActive ==
    (Painted /\ options.colorizeByBrightness) =>
        UseColorization(Cur) /\ AnalysisData(Cur) # << >>

-----------------------------------------------------------------------------
(* C17 *)

\* the numbers of segments render() has passed to an analyzer
SegmentCounts == {log[i][3] : i \in {j \in DOMAIN log : log[j][1] = "analyze"}}

\* C17 as claimed: for every buffer length N >= 0 and every rendered width,
\* the number of segments passed to the analyzer is at most floor(N / 128).
C17_AtMostWindows ==
    \A n \in SegmentCounts : n <= samples.length \div FFT_SIZE

\* C17: the number of segments passed to the analyzer is at least 1; it is at
\* most floor(N / 128) when the buffer holds a window (N >= 128), and it is 1
\* when the buffer is shorter than a window.
C17_AtMostWindowsOrOne ==
    \A n \in SegmentCounts :
        /\ n >= 1
        /\ samples.length >= FFT_SIZE => n <= samples.length \div FFT_SIZE
        /\ samples.length < FFT_SIZE => n = 1

\* render() has analyzed a buffer of two windows in two segments, and the
\* analysis has as many values
C17_Witness ==
    /\ samples.length = 2 * FFT_SIZE
    /\ 2 \in SegmentCounts
    /\ Len(brightnessData) = 2

-----------------------------------------------------------------------------
(* C15 *)

\* the per-segment feature values
FeaturesOf(st) ==
    [brightnessData |-> st.brightnessData,
     prominentFrequencyData |-> st.prominentFrequencyData]

\* the tile partition of the canvases in the document
PartitionOf(st) ==
    {[totalWidth |-> st.closures[id].totalWidth,
      singleCanvasWidth |-> st.closures[id].singleCanvasWidth,
      numCanvases |-> st.closures[id].numCanvases] :
        id \in {j \in DOMAIN st.closures : st.closures[j].attached}}

\* what is painted: per canvas in the document its tile, its pixel width, and
\* what its bars take their fill from
PaintedOf(st) ==
    {[index |-> cv[2], width |-> cv[3], colorized |-> UseColorization(st),
      data |-> IF UseColorization(st) THEN AnalysisData(st) ELSE << >>] :
        cv \in Range(Canvases(st.closures, 1))}

\* setOptions with colorizeByBrightness off, then setOptions with the options
\* as they were
ToggledTwice(st) ==
    SetOptions(SetOptions(st, [st.options EXCEPT !.colorizeByBrightness = FALSE]),
               st.options)

\* C15 as claimed: re-rendering with unchanged configuration, buffer and
\* viewport gives the same per-segment feature values and the same tile
\* partition; switching colorizeByBrightness off and on again through
\* setOptions restores the feature values and the painted output that existed
\* before the two switches.
C15_RenderRestoresPainted ==
    (audioData # 0 /\ ~hung) =>
        /\ ~ReRender(Cur).hung
        /\ FeaturesOf(ReRender(Cur)) = FeaturesOf(Cur)
        /\ PartitionOf(ReRender(Cur)) = PartitionOf(Cur)
        /\ options.colorizeByBrightness =>
            /\ FeaturesOf(ToggledTwice(Cur)) = FeaturesOf(Cur)
            /\ PaintedOf(ToggledTwice(Cur)) = PaintedOf(Cur)

\* C15: re-rendering with unchanged configuration, buffer and viewport gives
\* the same per-segment feature values and the same tile partition; switching
\* colorizeByBrightness off and on again through setOptions restores the
\* feature values and the partition, and every canvas then in the document is
\* painted as the canvas of the same tile was before; the tiles that scrolling
\* had mounted away from the viewport are not mounted again.
C15_RenderIdempotent ==
    (audioData # 0 /\ ~hung) =>
        /\ ~ReRender(Cur).hung
        /\ FeaturesOf(ReRender(Cur)) = FeaturesOf(Cur)
        /\ PartitionOf(ReRender(Cur)) = PartitionOf(Cur)
        /\ options.colorizeByBrightness =>
            /\ FeaturesOf(ToggledTwice(Cur)) = FeaturesOf(Cur)
            /\ PartitionOf(ToggledTwice(Cur)) = PartitionOf(Cur)
            /\ PaintedOf(ToggledTwice(Cur)) \subseteq PaintedOf(Cur)

\* colorizeByBrightness was on in pass 1, off in pass 2 and is on again in
\* pass 3, with two differing feature values and painted canvases
C15_Witness ==
    /\ ~hung
    /\ Passes(log) = 3
    /\ {log[i][2] : i \in {j \in DOMAIN log : log[j][1] = "analyze"}} = {1, 3}
    /\ Len(brightnessData) = 2
    /\ brightnessData[1] # brightnessData[2]
    /\ PaintedOf(Cur) # {}
    /\ PaintedOf(Cur) = PaintedOf(ToggledTwice(Cur))

-----------------------------------------------------------------------------
(* C21 *)

\* getColorValue has returned
Returned == probe.method = "getColorValue" /\ probe.result # Pending

\* the place, in the list as supplied, of the first and of the last stop of
\* the sorted list: the smallest position, supplied first among equals; the
\* largest position, supplied last among equals
FirstSorted ==
    CHOOSE k \in DOMAIN probe.stops :
        \A j \in DOMAIN probe.stops :
            \/ probe.stops[k].stop < probe.stops[j].stop
            \/ probe.stops[k].stop = probe.stops[j].stop /\ k <= j

LastSorted ==
    CHOOSE k \in DOMAIN probe.stops :
        \A j \in DOMAIN probe.stops :
            \/ probe.stops[k].stop > probe.stops[j].stop
            \/ probe.stops[k].stop = probe.stops[j].stop /\ k >= j

\* C21 as claimed: an empty list yields black; a single stop yields its color
\* for every value; a value at or below the first sorted stop's position
\* yields the first stop's color and a value at or above the last sorted
\* stop's position yields the last stop's color, literally.
C21_BoundaryColors ==
    Returned =>
        /\ Len(probe.stops) = 0 => probe.result = Rgb(0, 0, 0)
        /\ Len(probe.stops) = 1 => probe.result = probe.stops[1].color
        /\ Len(probe.stops) >= 2 =>
            /\ probe.value <= probe.stops[FirstSorted].stop
                 => probe.result = probe.stops[FirstSorted].color
            /\ probe.value >= probe.stops[LastSorted].stop
                 => probe.result = probe.stops[LastSorted].color

\* C21: as claimed, the value taken after clamping into [0, 1], except that
\* when every stop has the position of the value (the value is at or below
\* the first and at or above the last position at once) the color is that of
\* the first sorted stop.
C21_BoundaryColorsFirstWins ==
    Returned =>
        /\ Len(probe.stops) = 0 => probe.result = Rgb(0, 0, 0)
        /\ Len(probe.stops) = 1 => probe.result = probe.stops[1].color
        /\ Len(probe.stops) >= 2 =>
            /\ Clamp(probe.value) <= probe.stops[FirstSorted].stop
                 => probe.result = probe.stops[FirstSorted].color
            /\ (/\ Clamp(probe.value) >= probe.stops[LastSorted].stop
                /\ Clamp(probe.value) > probe.stops[FirstSorted].stop)
                 => probe.result = probe.stops[LastSorted].color

\* a value above 1 on three stops supplied out of order, the largest position
\* below 1 and shared by two of them: the color of the one supplied last,
\* which no color reader understands, comes back as it is
C21_Witness ==
    /\ Returned
    /\ probe.value = Unit + 1
    /\ Len(probe.stops) = 3
    /\ probe.stops[1].stop = 2
    /\ probe.stops[2].stop = 0
    /\ probe.stops[3].stop = 2
    /\ probe.stops[1].color # probe.stops[3].color
    /\ ParseColor(probe.stops[3].color) = Null
    /\ probe.result = probe.stops[3].color

-----------------------------------------------------------------------------
(* C22 *)

\* the place in the sorted list of the lower bracketing stop: the first pair
\* of adjacent stops around the clamped value
LowerIndex ==
    LET sorted == SortStops(probe.stops)
        v      == Clamp(probe.value)
    IN  CHOOSE i \in 1..(Len(sorted) - 1) :
            /\ sorted[i].stop <= v /\ v <= sorted[i + 1].stop
            /\ \A j \in 1..(i - 1) :
                 ~(sorted[j].stop <= v /\ v <= sorted[j + 1].stop)

\* the value lies strictly between the first and the last stop position, and
\* parseColor cannot read the color of a bracketing stop
UnparsableBracket ==
    LET sorted == SortStops(probe.stops)
        n      == Len(sorted)
        v      == Clamp(probe.value)
    IN  /\ Returned
        /\ n >= 2
        /\ sorted[1].stop < v
        /\ v < sorted[n].stop
        /\ \/ ParseColor(sorted[LowerIndex].color) = Null
           \/ ParseColor(sorted[LowerIndex + 1].color) = Null

\* C22: when the color of either bracketing stop cannot be parsed, the result
\* is the literal color of the bracketing stop whose position is nearer to
\* the value.
C22_NearerStopFallback ==
    UnparsableBracket =>
        LET sorted == SortStops(probe.stops)
            v      == Clamp(probe.value)
            lower  == sorted[LowerIndex]
            upper  == sorted[LowerIndex + 1]
        IN  /\ v - lower.stop < upper.stop - v => probe.result = lower.color
            /\ v - lower.stop > upper.stop - v => probe.result = upper.color

-----------------------------------------------------------------------------
(* C26 *)

\* the stop list of the probe in every order
Reorderings ==
    {[i \in DOMAIN probe.stops |-> probe.stops[f[i]]] :
        f \in Permutations(DOMAIN probe.stops)}

\* no two stops of the probe have the same position and different colors
NoRivalStops ==
    \A j, k \in DOMAIN probe.stops :
        probe.stops[j].stop = probe.stops[k].stop
            => probe.stops[j].color = probe.stops[k].color

\* C26 as claimed: for every stop list, duplicate positions allowed, every
\* reordering of it and every value, the color returned is the same, and the
\* caller's list is as it was supplied.
C26_OrderIndependent ==
    Returned =>
        /\ probe.caller = probe.stops
        /\ \A q \in Reorderings : GetColorValue(probe.value, q) = probe.result

\* C26: the caller's list is as it was supplied, and the color returned is the
\* same for every reordering of a list in which stops of the same position
\* have the same color.
C26_OrderIndependentWithoutRivals ==
    Returned =>
        /\ probe.caller = probe.stops
        /\ NoRivalStops =>
             \A q \in Reorderings : GetColorValue(probe.value, q) = probe.result

\* three stops of distinct positions supplied in descending order, the value
\* between the two lower ones: an interpolated color, the same in all six
\* orders
C26_Witness ==
    /\ Returned
    /\ Len(probe.stops) = 3
    /\ probe.stops[1].stop > probe.stops[2].stop
    /\ probe.stops[2].stop > probe.stops[3].stop
    /\ probe.stops[3].stop < probe.value
    /\ probe.value < probe.stops[2].stop
    /\ probe.result.format = "rgb"
    /\ probe.result # probe.stops[2].color
    /\ probe.result # probe.stops[3].color
    /\ Cardinality(Reorderings) = 6

-----------------------------------------------------------------------------
(* C25 *)

\* the min-max normalized values of the analyzer of the probe
Normalized ==
    MinMaxNormalize(IF probe.method = "analyzeBrightness"
                    THEN RawBrightnessValues(samples, probe.numberOfSegments)
                    ELSE RawProminentFrequencyValues(samples,
                                                     probe.numberOfSegments))

\* C25: with a normalizationPower p the analyzer returns value^p for every
\* min-max normalized value, in centroid mode and in prominentFrequency mode
\* alike; without one it returns the normalized values.
C25_PowerInBothModes ==
    Analyzed =>
        Output = IF options.normalizationPower = << >> THEN Normalized
                 ELSE [i \in DOMAIN Normalized |->
                         Pow(Normalized[i], options.normalizationPower[1])]

-----------------------------------------------------------------------------
(* C23 *)

\* C23: whenever barWidth or barGap is configured, also when only one of them
\* is, the tile width is a whole multiple of the bar slot (bar plus gap) that
\* renderBarWaveform places bars by, so that tile boundaries are slot
\* boundaries.
C23_TileWidthOfWholeSlots ==
    \A id \in Current :
        LET c == closures[id]
        IN  (Tiled(c) /\ (options.barWidth # 0 \/ options.barGap # 0)) =>
                c.singleCanvasWidth % BarSlot(options) = 0

-----------------------------------------------------------------------------
(* C24 *)

\* the canvases in the document, each as <<closure, tile index>>, of a pass
\* that drew the channels of the buffer (splitChannels off)
DrawnTiles ==
    {<<id, index>> \in Current \X (0..20) :
        options.channels = 1 /\ index \in Mounted(closures[id])}

\* 1 / (peak magnitude of the first channel of the whole buffer), 1 if it is 0
VScaleOfBuffer(o, channelData) ==
    IF o.normalize /\ PeakOf(channelData[1]) # 0
    THEN Frac(Unit, PeakOf(channelData[1]))
    ELSE <<1, 1>>

\* C24: in normalize mode every tile of a render pass is painted with the
\* factor 1 / (peak magnitude of the buffer), 1 if the peak is 0, and no
\* sample of a drawn channel scales to more than the full height.
C24_NormalizeByBufferPeak ==
    (options.normalize /\ ~hung) =>
        \A t \in DrawnTiles :
            LET c      == closures[t[1]]
                vScale == VScale(options, DrawnChannels(samples), c, t[2])
            IN  /\ vScale = VScaleOfBuffer(options, DrawnChannels(samples))
                /\ \A k \in DOMAIN DrawnChannels(samples) :
                     LET data == SliceOf(DrawnChannels(samples)[k], c, t[2])
                     IN  \A i \in DOMAIN data : data[i] * vScale[1] <= Unit * vScale[2]

-----------------------------------------------------------------------------
(* C27 *)

\* the tiles of closure c whose pixel range meets the viewport
\* [scrollLeft, scrollLeft + clientWidth), lengths in half pixels
VisibleTiles(c) ==
    {j \in 0..(c.numCanvases - 1) :
        /\ TileWidth(j, c.totalWidth, c.singleCanvasWidth) > 0
        /\ TileOffset(j, c.singleCanvasWidth) < (scrollLeft + clientWidth) * H
        /\ TileOffset(j, c.singleCanvasWidth)
             + TileWidth(j, c.totalWidth, c.singleCanvasWidth) > scrollLeft * H}

\* C27: in the scrollable case, after the initial render and after every
\* scroll notification, every tile whose pixel range meets the viewport is
\* materialized, for every viewport width, total width and bar configuration.
C27_VisibleTilesMounted ==
    \A id \in Current :
        LET c == closures[id]
        IN  (isScrollable /\ ~hung /\ c.singleCanvasWidth > 0
                /\ IsFinite(c.numCanvases)) =>
                VisibleTiles(c) \subseteq Mounted(c)

-----------------------------------------------------------------------------
(* C28 *)

\* renderWaveform draws bars
DrawsBars == options.barWidth # 0 \/ options.barGap # 0

\* closure c paints tile j in bars, and its bar b is coloured by the element
\* of the data that colours the bar at the same place of the timeline when the
\* timeline is one canvas
BarColoredAsUntiled(c, j, b) ==
    LET n      == Len(brightnessData)
        slot   == BarSlot(options)
        offset == TileOffset(j, c.singleCanvasWidth)
        width  == CanvasPixelWidth(TileWidth(j, c.totalWidth, c.singleCanvasWidth))
    IN  BrightnessIndex(n, width, slot, b)
            = BrightnessIndex(n, c.totalWidth, slot, offset \div slot + b)

\* the same for the pixel column x of tile j painted as a line
ColumnColoredAsUntiled(c, j, x) ==
    LET n      == Len(brightnessData)
        offset == TileOffset(j, c.singleCanvasWidth) \div H
        width  == CanvasPixelWidth(TileWidth(j, c.totalWidth, c.singleCanvasWidth))
    IN  SegmentIndexOfColumn(n, width, x)
            = SegmentIndexOfColumn(n, c.totalWidth, offset + x)

\* C28: with colorization active, the element of the analysis data that
\* colours a bar or a column depends only on its position on the whole
\* timeline: every tile colours each position as a single canvas over the
\* whole timeline would, however many tiles there are.
C28_ColoredAsUntiled ==
    (UseColorization(Cur) /\ ~hung) =>
        \A id \in Current :
            LET c == closures[id]
            IN  \A j \in Mounted(c) :
                    LET width == CanvasPixelWidth(
                                    TileWidth(j, c.totalWidth, c.singleCanvasWidth))
                    IN  IF DrawsBars
                        THEN \A b \in BarCounts(width, BarSlot(options)) :
                                BarColoredAsUntiled(c, j, b)
                        ELSE \A x \in 0..(width - 1) :
                                ColumnColoredAsUntiled(c, j, x)

-----------------------------------------------------------------------------
(* C29 *)

Destroyed == dom.state = "destroyed"

\* C29: once destroy() has returned the renderer starts no render pass of its
\* own: no step of a destroyed renderer emits 'render', a resize debounce timer
\* that was pending at destroy() included, and no 'scroll' listener of a tile
\* manager is subscribed.
C29_NoRenderAfterDestroy ==
    [][(Destroyed => Passes(log') = Passes(log))
       /\ (Destroyed' => listeners' = << >>)]_vars

\* the part of C29 about the scroll subscriptions alone
C29_NoListenerAfterDestroy == Destroyed => listeners = << >>

\* a destroyed renderer whose debounce timer was pending has run its handler
C29_Reached ==
    /\ Destroyed
    /\ \E id \in DOMAIN handlerRuns : handlerRuns[id] > 0

-----------------------------------------------------------------------------
(* C30 *)

\* the elements built by the most recent initSegments
CurrentElements ==
    {id \in DOMAIN plugin.elements : plugin.elements[id].build = plugin.builds}

\* the elements whose 'scroll' listener is subscribed
Listening == {plugin.subscriptions[i] : i \in DOMAIN plugin.subscriptions}

\* a current element is a child of the container exactly if it was visible at
\* the last evaluation of its renderIfVisible
C30_AttachedIffVisible ==
    \A id \in CurrentElements :
        plugin.elements[id].attached = plugin.elements[id].wasVisible

\* C30: after any sequence of redraw events and setSegments/setOptions calls
\* the plugin's active scroll listeners are exactly those of the elements the
\* most recent initSegments built, one per configured segment; those of
\* replaced elements are not active; and each current element is attached
\* exactly when it was visible at the last visibility evaluation.
C30_ListenersOfCurrentElements ==
    plugin.builds > 0 =>
        /\ Listening = CurrentElements
        /\ Len(plugin.subscriptions) = Len(plugin.segments)
        /\ C30_AttachedIffVisible

====
